---- MODULE Spec2Model ----
(***************************************************************************)
(* One run of scripts/generate-hero-image.py: the module-level API-key     *)
(* check, argument parsing, mode validation, directory creation, the       *)
(* single HTTP POST, the check of the response body, and decode-and-save.  *)
(*                                                                         *)
(* Text is modelled as a sequence of one-character strings, so that        *)
(* lower(), upper(), Path.suffix, Path.parent and the pathlib "/" operator *)
(* are computed the way the library computes them.  A multi-character      *)
(* element ("public", "tips", "repo") stands for a fixed name that holds   *)
(* no dot and no slash.                                                    *)
(***************************************************************************)
EXTENDS Naturals, Sequences, FiniteSets

\* Longest --slug value the model enumerates (over SlugAlphabet).
MaxSlugLen == 2

\* Python's None for an argument that was not given.
None == <<"<None>">>

\* Truthiness of an optional string: neither None nor empty.
Truthy(x) == x # None /\ x # <<>>

----------------------------------------------------------------------------
\* str.lower() / str.upper(), character by character.

CasePairs ==
    { <<"w","W">>, <<"e","E">>, <<"b","B">>, <<"p","P">>, <<"j","J">>,
      <<"g","G">>, <<"n","N">>, <<"i","I">>, <<"f","F">>, <<"t","T">>,
      <<"o","O">>, <<"d","D">>, <<"a","A">>, <<"l","L">>, <<"m","M">>,
      <<"u","U">>, <<"h","H">>, <<"s","S">>, <<"r","R">> }

LowerCh(c) == IF \E q \in CasePairs : q[2] = c
              THEN (CHOOSE q \in CasePairs : q[2] = c)[1] ELSE c

UpperCh(c) == IF \E q \in CasePairs : q[1] = c
              THEN (CHOOSE q \in CasePairs : q[1] = c)[2] ELSE c

Lower(s) == [i \in 1..Len(s) |-> LowerCh(s[i])]

Upper(s) == [i \in 1..Len(s) |-> UpperCh(s[i])]

----------------------------------------------------------------------------
\* pathlib.PurePosixPath: a path is a root ("", "/" or "//") and a list of
\* parts; empty and "." components are dropped when the text is parsed.

RECURSIVE Split(_)
Split(s) ==
    IF s = <<>> THEN << <<>> >>
    ELSE LET r == Split(Tail(s)) IN
         IF Head(s) = "/" THEN << <<>> >> \o r
         ELSE << <<Head(s)>> \o Head(r) >> \o Tail(r)

KeepPart(c) == c # <<>> /\ c # <<".">>

Root(s) ==
    IF Len(s) >= 2 /\ s[1] = "/" /\ s[2] = "/" /\ ~(Len(s) >= 3 /\ s[3] = "/")
    THEN <<"/", "/">>
    ELSE IF Len(s) >= 1 /\ s[1] = "/" THEN <<"/">> ELSE <<>>

PurePath(s) == [root |-> Root(s), parts |-> SelectSeq(Split(s), KeepPart)]

RECURSIVE JoinParts(_)
JoinParts(ps) ==
    IF ps = <<>> THEN <<>>
    ELSE IF Len(ps) = 1 THEN ps[1]
    ELSE ps[1] \o <<"/">> \o JoinParts(Tail(ps))

\* str(path)
Str(p) == IF p.root = <<>> /\ p.parts = <<>> THEN <<".">>
          ELSE p.root \o JoinParts(p.parts)

\* path / text : an absolute right operand replaces the left one.
JoinPath(p, s) ==
    LET q == PurePath(s) IN
    IF q.root # <<>> THEN q
    ELSE [root |-> p.root, parts |-> p.parts \o q.parts]

\* path.parent
Parent(p) ==
    IF p.parts = <<>> THEN p
    ELSE [root |-> p.root, parts |-> SubSeq(p.parts, 1, Len(p.parts) - 1)]

\* path.name
Name(p) == IF p.parts = <<>> THEN <<>> ELSE p.parts[Len(p.parts)]

\* path.suffix : from the last dot of the name, unless that dot is the
\* first or the last character of the name.
Suffix(p) ==
    LET n    == Name(p)
        dots == {i \in 1..Len(n) : n[i] = "."}
    IN
    IF dots = {} THEN <<>>
    ELSE LET i == CHOOSE k \in dots : \A m \in dots : m <= k IN
         IF i > 1 /\ i < Len(n) THEN SubSeq(n, i, Len(n)) ELSE <<>>

\* text[1:]
DropFirst(s) == IF s = <<>> THEN <<>> ELSE Tail(s)

PNG_LOWER == <<"p", "n", "g">>

\* Path(output_path).suffix[1:].lower() or "png"
FormatFromPath(output_path) ==
    LET ext == Lower(DropFirst(Suffix(PurePath(output_path)))) IN
    IF ext = <<>> THEN PNG_LOWER ELSE ext

----------------------------------------------------------------------------
\* The command line and the environment of one run.

PromptValues == { None, <<>>, <<"p">> }

OutputValues ==
    { None, <<>>,
      <<"o", ".", "w", "e", "b", "p">>,
      <<"o", ".", "W", "E", "B", "P">>,
      <<"o", ".", "j", "p", "g">>,
      <<"o", ".", "J", "P", "E", "G">>,
      <<"d", "/", "o", ".", "j", "p", "g">>,
      <<"o", ".", "p", "n", "g">>,
      <<"o", ".", "g", "i", "f">>,
      <<"o", ".", "t", "i", "f">>,
      <<"o">>,
      <<".", "w", "e", "b", "p">> }

\* choices=["tips", "guides", "news"]
TypeChoices == { <<"tips">>, <<"guides">>, <<"news">> }

TypeValues == { None, <<"blog">> } \cup TypeChoices

\* choices=["low", "medium", "high", "auto"]
LOW    == <<"l", "o", "w">>
MEDIUM == <<"m", "e", "d", "i", "u", "m">>
HIGH   == <<"h", "i", "g", "h">>
AUTO   == <<"a", "u", "t", "o">>

QualityChoices == { LOW, MEDIUM, HIGH, AUTO }

\* "standard" is the value the module docstring's usage example passes.
QualityValues ==
    QualityChoices \cup { <<"s", "t", "a", "n", "d", "a", "r", "d">>,
                          <<"H", "I", "G", "H">> }

SlugAlphabet == { "a", "/", "." }

SlugValues ==
    { None } \cup UNION { [1..n -> SlugAlphabet] : n \in 0..MaxSlugLen }

Argv == [ prompt : PromptValues, output : OutputValues, type : TypeValues,
          slug : SlugValues, size : { "1536x1024" }, quality : QualityValues ]

\* Colour modes a decoded PNG can have; "LA" and "RGBA" carry alpha.
ImageModes == { "RGB", "RGBA", "L", "LA", "P" }

\* A base64 payload: a PNG of some colour mode, or bytes that do not decode.
Payloads == ImageModes \cup { "corrupt" }

Item(hasKey, b64) == [has_b64_json |-> hasKey, b64_json |-> b64]

Body(kind, hasData, data) ==
    [kind |-> kind, has_data |-> hasData, data |-> data]

\* What requests.post / raise_for_status / response.json() can produce.
Responses ==
    { Body(k, FALSE, <<>>) :
        k \in { "connection_error", "timeout", "http_error",
                "invalid_json", "json_null", "json_dict" } }
    \cup { Body("json_dict", TRUE, <<>>),
           Body("json_dict", TRUE, << Item(FALSE, "corrupt") >>),
           Body("json_dict", TRUE, << Item(TRUE, "RGB"), Item(TRUE, "RGBA") >>) }
    \cup { Body("json_dict", TRUE, << Item(TRUE, b) >>) : b \in Payloads }

RequestErrors == { "connection_error", "timeout", "http_error", "invalid_json" }

----------------------------------------------------------------------------
VARIABLES
    pc,               \* position of the run
    subscription_key, \* TRUE iff AZURE_OPENAI_API_KEY is set and non-empty
    argv,             \* the command line
    args,             \* <<>> or <<namespace returned by parse_args>>
    output_path,      \* resolved output path, None until resolved
    dirs,             \* directories mkdir(parents=True, exist_ok=True) made
    requests,         \* bodies of the HTTP POSTs sent, in order
    response,         \* <<>> or <<outcome of the POST>>
    image,            \* colour mode of the decoded image, "" before decoding
    save_call,        \* <<>> or <<the image.save call made>>
    files,            \* image files written by this run
    help_printed,     \* parser.print_help() was called
    stderr,           \* which diagnostic was printed, "" if none
    exit_code         \* <<>> while running, <<status>> once exited

vars == << pc, subscription_key, argv, args, output_path, dirs, requests,
           response, image, save_call, files, help_printed, stderr, exit_code >>

Init ==
    /\ pc = "startup"
    /\ subscription_key \in BOOLEAN
    /\ argv \in Argv
    /\ args = <<>>
    /\ output_path = None
    /\ dirs = {}
    /\ requests = <<>>
    /\ response = <<>>
    /\ image = ""
    /\ save_call = <<>>
    /\ files = {}
    /\ help_printed = FALSE
    /\ stderr = ""
    /\ exit_code = <<>>

\* sys.exit(code), or the interpreter ending on an uncaught exception.
Exit(code, msg) ==
    /\ pc' = "done"
    /\ exit_code' = << code >>
    /\ stderr' = msg

\* Startup without the "if not subscription_key" test.
Startup_KeyNotRequired ==
    /\ pc = "startup"
    /\ pc' = "main"
    /\ UNCHANGED << subscription_key, argv, args, output_path, dirs, requests,
                    response, image, save_call, files, help_printed,
                    exit_code, stderr >>

\* Module level: the configuration is read and the key is required.
Startup ==
    /\ pc = "startup"
    /\ IF ~subscription_key
       THEN Exit(1, "missing_api_key")
       ELSE pc' = "main" /\ UNCHANGED << exit_code, stderr >>
    /\ UNCHANGED << subscription_key, argv, args, output_path, dirs, requests,
                    response, image, save_call, files, help_printed >>

\* ParserRejects with no choices= on --quality.
ParserRejects_TypeOnly(a) ==
    a.type # None /\ a.type \notin TypeChoices

\* argparse rejects a --type or --quality outside its choices: parser.error()
\* prints the usage line and exits with status 2.
\* (The command lines of Argv hold no -h; such a run prints the help and
\* exits 0 here.)
ParserRejects(a) ==
    \/ a.type # None /\ a.type \notin TypeChoices
    \/ a.quality \notin QualityChoices

ARGPARSE_ERROR_STATUS == 2

ParseArgs ==
    /\ pc = "main"
    /\ IF ParserRejects(argv)
       THEN Exit(ARGPARSE_ERROR_STATUS, "argparse_error") /\ UNCHANGED args
       ELSE /\ args' = << argv >>
            /\ pc' = "validate"
            /\ UNCHANGED << exit_code, stderr >>
    /\ UNCHANGED << subscription_key, argv, output_path, dirs, requests,
                    response, image, save_call, files, help_printed >>

\* if args.type and args.slug:
ContentMode(a) == Truthy(a.type) /\ Truthy(a.slug)

\* UsageError with the custom-path check reduced to "if not args.prompt".
UsageError_PromptOnly(a) == ~Truthy(a.prompt)

\* The two "required" checks of main().
UsageError(a) ==
    IF ContentMode(a)
    THEN ~Truthy(a.prompt)
    ELSE ~Truthy(a.prompt) \/ ~Truthy(a.output)

ValidateArgs ==
    /\ pc = "validate"
    /\ LET a == args[1] IN
       IF UsageError(a)
       THEN /\ help_printed' = TRUE
            /\ Exit(1, "usage_error")
       ELSE /\ pc' = IF ContentMode(a) THEN "content_mkdir" ELSE "custom_mkdir"
            /\ UNCHANGED << help_printed, exit_code, stderr >>
    /\ UNCHANGED << subscription_key, argv, args, output_path, dirs, requests,
                    response, image, save_call, files >>

----------------------------------------------------------------------------
\* Path(__file__), with the script in the scripts/ directory of the project.
ScriptFile ==
    [root |-> <<"/">>,
     parts |-> << <<"repo">>, <<"scripts">>, <<"generate-hero-image.py">> >>]

\* project_root / "public" / "images" / "webp" / content_type
ContentDir(content_type) ==
    LET project_root == Parent(Parent(ScriptFile)) IN
    JoinPath(JoinPath(JoinPath(JoinPath(project_root, <<"public">>),
                               <<"images">>), <<"webp">>), content_type)

DOT_WEBP == <<".", "w", "e", "b", "p">>

\* output_dir / f"{slug}.webp"
ContentPath(content_type, slug) ==
    JoinPath(ContentDir(content_type), slug \o DOT_WEBP)

\* generate_content_image up to the call of generate_image.  It runs inside
\* main's try block, so a failing mkdir is caught and reported.
MkdirContent ==
    /\ pc = "content_mkdir"
    /\ LET a == args[1] IN
       \E ok \in BOOLEAN :
          IF ok
          THEN /\ dirs' = dirs \cup { Str(ContentDir(a.type)) }
               /\ output_path' = Str(ContentPath(a.type, a.slug))
               /\ pc' = "post"
               /\ UNCHANGED << exit_code, stderr >>
          ELSE /\ Exit(1, "error")
               /\ UNCHANGED << dirs, output_path >>
    /\ UNCHANGED << subscription_key, argv, args, requests, response, image,
                    save_call, files, help_printed >>

\* Custom path mode: the mkdir comes before main's try block, so a failing
\* mkdir ends the interpreter with a traceback and status 1.
MkdirCustom ==
    /\ pc = "custom_mkdir"
    /\ LET path == PurePath(args[1].output) IN
       \E ok \in BOOLEAN :
          IF ok
          THEN /\ dirs' = dirs \cup { Str(Parent(path)) }
               /\ output_path' = Str(path)
               /\ pc' = "post"
               /\ UNCHANGED << exit_code, stderr >>
          ELSE /\ Exit(1, "traceback")
               /\ UNCHANGED << dirs, output_path >>
    /\ UNCHANGED << subscription_key, argv, args, requests, response, image,
                    save_call, files, help_printed >>

\* generation_body
GenerationBody(a) ==
    [prompt |-> a.prompt, n |-> 1, size |-> a.size, quality |-> a.quality,
     output_format |-> PNG_LOWER]

\* requests.post(...): one request goes out and one outcome comes back.
Post ==
    /\ pc = "post"
    /\ requests' = Append(requests, GenerationBody(args[1]))
    /\ \E r \in Responses : response' = << r >>
    /\ pc' = "response"
    /\ UNCHANGED << subscription_key, argv, args, output_path, dirs, image,
                    save_call, files, help_printed, stderr, exit_code >>

\* RequestFailed with a retry in place of sys.exit(1).
RequestFailed_Retries ==
    /\ pc = "response"
    /\ response[1].kind \in RequestErrors
    /\ pc' = "post"
    /\ UNCHANGED << subscription_key, argv, args, output_path, dirs, requests,
                    response, image, save_call, files, help_printed,
                    exit_code, stderr >>

\* except requests.exceptions.RequestException: print and sys.exit(1).
RequestFailed ==
    /\ pc = "response"
    /\ response[1].kind \in RequestErrors
    /\ Exit(1, "api_request_error")
    /\ UNCHANGED << subscription_key, argv, args, output_path, dirs, requests,
                    response, image, save_call, files, help_printed >>

\* CheckData that reports missing data and returns instead of exiting, so
\* that main returns normally.
CheckData_ReturnsOnNoData ==
    /\ pc = "response"
    /\ response[1].kind \notin RequestErrors
    /\ LET r == response[1] IN
       IF r.kind # "json_dict"
       THEN Exit(1, "error")
       ELSE IF ~r.has_data \/ r.data = <<>>
       THEN Exit(0, "no_image_data")
       ELSE pc' = "save" /\ UNCHANGED << exit_code, stderr >>
    /\ UNCHANGED << subscription_key, argv, args, output_path, dirs, requests,
                    response, image, save_call, files, help_printed >>

\* if 'data' not in response_data or not response_data['data']: sys.exit(1).
\* A body that is JSON null makes the test itself raise TypeError, which
\* main's except clause reports.
CheckData ==
    /\ pc = "response"
    /\ response[1].kind \notin RequestErrors
    /\ LET r == response[1] IN
       IF r.kind # "json_dict"
       THEN Exit(1, "error")
       ELSE IF ~r.has_data \/ r.data = <<>>
       THEN Exit(1, "no_image_data")
       ELSE pc' = "save" /\ UNCHANGED << exit_code, stderr >>
    /\ UNCHANGED << subscription_key, argv, args, output_path, dirs, requests,
                    response, image, save_call, files, help_printed >>

----------------------------------------------------------------------------
\* Decode and save.

WEBP == <<"W", "E", "B", "P">>
JPEG == <<"J", "P", "E", "G">>
WEBP_LOWER == <<"w", "e", "b", "p">>
JPG_LOWER  == <<"j", "p", "g">>
JPEG_LOWER == <<"j", "p", "e", "g">>

WEBP_METHOD == 6

DEFAULT_QUALITY == 95

\* ConversionQuality with the "low" and "medium" entries exchanged.
ConversionQuality_Swapped(quality) ==
    LET q == Lower(quality) IN
    IF q = LOW THEN 85
    ELSE IF q = MEDIUM THEN 70
    ELSE 95

\* quality_map.get(quality.lower(), 95)
ConversionQuality(quality) ==
    LET q == Lower(quality) IN
    IF q = LOW THEN 70
    ELSE IF q = MEDIUM THEN 85
    ELSE IF q = HIGH THEN 95
    ELSE IF q = AUTO THEN 95
    ELSE DEFAULT_QUALITY

\* SaveCall whose last branch passes quality= like the other two.
SaveCall_QualityEverywhere(m, path, output_format, quality) ==
    LET fmt == IF output_format = None THEN FormatFromPath(path)
               ELSE output_format
    IN
    IF Lower(fmt) = <<"w", "e", "b", "p">>
    THEN [path |-> path, format |-> <<"W", "E", "B", "P">>, mode |-> m,
          composited |-> FALSE,
          kwargs |-> { <<"quality", quality>>, <<"method", 6>> }]
    ELSE IF Lower(fmt) = <<"j", "p", "g">> \/ Lower(fmt) = <<"j", "p", "e", "g">>
    THEN [path |-> path, format |-> <<"J", "P", "E", "G">>,
          mode |-> IF m = "RGBA" THEN "RGB" ELSE m,
          composited |-> (m = "RGBA"),
          kwargs |-> { <<"quality", quality>> }]
    ELSE [path |-> path, format |-> Upper(fmt), mode |-> m,
          composited |-> FALSE, kwargs |-> { <<"quality", quality>> }]

\* The image.save(...) call decode_and_save_image makes for an image of
\* colour mode m: the encoder identifier, the keyword parameters, the colour
\* mode of the image handed to the encoder, and whether it was first pasted
\* onto a white RGB background through its alpha band.
SaveCall(m, path, output_format, quality) ==
    LET fmt == IF output_format = None THEN FormatFromPath(path)
               ELSE output_format
    IN
    IF Lower(fmt) = WEBP_LOWER
    THEN [path |-> path, format |-> WEBP, mode |-> m, composited |-> FALSE,
          kwargs |-> { <<"quality", quality>>, <<"method", WEBP_METHOD>> }]
    ELSE IF Lower(fmt) = JPG_LOWER \/ Lower(fmt) = JPEG_LOWER
    THEN [path |-> path, format |-> JPEG,
          mode |-> IF m = "RGBA" THEN "RGB" ELSE m,
          composited |-> (m = "RGBA"),
          kwargs |-> { <<"quality", quality>> }]
    ELSE [path |-> path, format |-> Upper(fmt), mode |-> m,
          composited |-> FALSE, kwargs |-> {}]

\* Encoder identifiers the image library registers (among those the
\* extensions of OutputValues can name; "TIF" is not one, "TIFF" is).
RegisteredEncoders ==
    { WEBP, JPEG, <<"P", "N", "G">>, <<"G", "I", "F">> }

\* The JPEG encoder writes only modes without alpha or palette.
JpegModes == { "RGB", "L" }

\* image.save raises for an unknown encoder, or a mode it cannot write.
EncoderAccepts(call) ==
    /\ call.format \in RegisteredEncoders
    /\ call.format = JPEG => call.mode \in JpegModes

\* Image.open(BytesIO(base64.b64decode(b64_data))) succeeds.
Decodes(b64) == b64 \in ImageModes

\* generate_image after the data check: pick the format and the quality,
\* take the first item, decode it and save it.  Any exception reaches
\* main's except clause; a completed save lets main return (status 0).
SaveImage ==
    /\ pc = "save"
    /\ LET a      == args[1]
           first  == response[1].data[1]
           fmt    == FormatFromPath(output_path)
           q      == ConversionQuality(a.quality)
       IN
       IF ~first.has_b64_json \/ ~Decodes(first.b64_json)
       THEN /\ Exit(1, "error")
            /\ UNCHANGED << image, save_call, files >>
       ELSE LET call == SaveCall(first.b64_json, output_path, fmt, q) IN
            /\ image' = first.b64_json
            /\ save_call' = << call >>
            /\ \E io_ok \in BOOLEAN :
                  IF io_ok /\ EncoderAccepts(call)
                  THEN files' = files \cup { call } /\ Exit(0, "")
                  ELSE UNCHANGED files /\ Exit(1, "error")
    /\ UNCHANGED << subscription_key, argv, args, output_path, dirs, requests,
                    response, help_printed >>

Next ==
    \/ Startup
    \/ ParseArgs
    \/ ValidateArgs
    \/ MkdirContent
    \/ MkdirCustom
    \/ Post
    \/ RequestFailed
    \/ CheckData
    \/ SaveImage

Spec == Init /\ [][Next]_vars

----------------------------------------------------------------------------
C2_ContentPathIsConventional ==
    ( /\ args # <<>>
      /\ argv.type \in { <<"tips">>, <<"guides">>, <<"news">> }
      /\ Truthy(argv.slug)
      /\ Truthy(argv.prompt) )
    => \A f \in files :
          f.path = Str(PurePath(<<"/", "repo", "/", "public", "/", "images",
                                  "/", "webp", "/">> \o argv.type \o <<"/">>
                                \o argv.slug \o <<".", "w", "e", "b", "p">>))

\* C3: without the API key the run ends at once with status 1: nothing is
\* parsed, no directory is made, no request is sent, no file is written.
C3_MissingKeyExitsFirst ==
    ~subscription_key =>
        /\ pc \in { "startup", "done" }
        /\ pc = "done" => exit_code = <<1>> /\ stderr = "missing_api_key"
        /\ args = <<>>
        /\ output_path = None
        /\ dirs = {}
        /\ requests = <<>>
        /\ files = {}

C3_Witness ==
    /\ ~subscription_key
    /\ pc = "done"
    /\ exit_code = <<1>>
    /\ Truthy(argv.prompt) /\ Truthy(argv.output)

\* C4: when the POST succeeds but the JSON body has no 'data' field or an
\* empty 'data' list, the run ends with status 1 and writes no file, in
\* custom-path mode and in --type/--slug mode alike.
C4_NoDataExitsOne ==
    ( /\ response # <<>>
      /\ response[1].kind \notin { "connection_error", "timeout",
                                   "http_error", "invalid_json" }
      /\ ~response[1].has_data \/ response[1].data = <<>> )
    => /\ files = {}
       /\ save_call = <<>>
       /\ pc \in { "response", "done" }
       /\ pc = "done" => exit_code = <<1>>

\* --type/--slug mode, body {"data": []}.
C4_Witness ==
    /\ pc = "done"
    /\ exit_code = <<1>>
    /\ response # <<>>
    /\ response[1].kind = "json_dict"
    /\ response[1].has_data
    /\ response[1].data = <<>>
    /\ Truthy(argv.type) /\ Truthy(argv.slug)

\* C5: the quality handed to the WEBP or JPEG encoder is 70 for "low", 85
\* for "medium", 95 for "high" and "auto", and the request body carries the
\* quality string of the command line.
C5_QualityMapping ==
    /\ \A i \in 1..Len(requests) : requests[i].quality = argv.quality
    /\ save_call # <<>> /\ save_call[1].format \in { WEBP, JPEG } =>
          LET expected ==
                  IF argv.quality = <<"l", "o", "w">> THEN 70
                  ELSE IF argv.quality = <<"m", "e", "d", "i", "u", "m">> THEN 85
                  ELSE 95
          IN  { kw \in save_call[1].kwargs : kw[1] = "quality" }
                  = { <<"quality", expected>> }

C5_Witness ==
    /\ files # {}
    /\ save_call # <<>>
    /\ save_call[1].format = JPEG
    /\ argv.quality = <<"m", "e", "d", "i", "u", "m">>
    /\ <<"quality", 85>> \in save_call[1].kwargs

\* C6 (as stated): when the target is JPEG, a source image with an alpha
\* channel, whatever its colour mode, is pasted onto white through its
\* alpha band, so the encoder gets an image without alpha and can write it;
\* a source without alpha is handed over as it is, with the quality.
C6_JpegAlphaFlattened ==
    ( /\ save_call # <<>>
      /\ Lower(DropFirst(Suffix(PurePath(output_path))))
            \in { <<"j", "p", "g">>, <<"j", "p", "e", "g">> } )
    => LET c == save_call[1] IN
       /\ c.format = JPEG
       /\ \E q \in { 70, 85, 95 } : c.kwargs = { <<"quality", q>> }
       /\ image \in { "RGBA", "LA" } => c.composited /\ c.mode \notin { "RGBA", "LA" }
       /\ image \notin { "RGBA", "LA" } => ~c.composited /\ c.mode = image
       /\ \A f \in files : f.mode \notin { "RGBA", "LA" }

\* C7: the required fields of the chosen mode are checked before any effect.
\* With --type and --slug given, a missing prompt is a usage error; otherwise
\* a missing prompt or a missing output is one.  A usage error prints the
\* help and exits 1, and no directory, request or file comes of the run.
C7_UsageErrors ==
    /\ pc \in { "startup", "main", "validate" } =>
          dirs = {} /\ requests = <<>> /\ files = {}
    /\ stderr = "usage_error" =>
          /\ pc = "done" /\ exit_code = <<1>> /\ help_printed
          /\ dirs = {} /\ requests = <<>> /\ files = {} /\ output_path = None
    /\ args # <<>> /\ pc # "validate" =>
          LET both    == argv.type # None /\ argv.slug # None
              noPrompt == argv.prompt \in { None, <<>> }
              noOutput == argv.output \in { None, <<>> }
          IN  ( \/ both /\ noPrompt
                \/ ~both /\ (noPrompt \/ noOutput) )
              => stderr = "usage_error"

\* Only --type is given, with a prompt and no output path.
C7_Witness ==
    /\ stderr = "usage_error"
    /\ help_printed
    /\ exit_code = <<1>>
    /\ argv.type = <<"guides">>
    /\ argv.slug = None
    /\ argv.prompt = <<"p">>
    /\ argv.output = None

\* C8: a run sends at most one POST; after a transport error, a timeout, an
\* HTTP error status or an unparsable body it ends with a non-zero status,
\* with that one request sent and no file written.
C8_NoRetry ==
    /\ Len(requests) <= 1
    /\ ( /\ response # <<>>
         /\ response[1].kind \in { "connection_error", "timeout",
                                   "http_error", "invalid_json" } )
       => /\ Len(requests) = 1
          /\ files = {}
          /\ save_call = <<>>
          /\ pc \in { "response", "done" }
          /\ pc = "done" => exit_code \notin { <<>>, <<0>> }

C8_Witness ==
    /\ pc = "done"
    /\ response # <<>>
    /\ response[1].kind = "timeout"
    /\ exit_code = <<1>>
    /\ Len(requests) = 1

\* C9: the encoder is chosen by the lower-cased extension of the output
\* path, PNG when there is none: "webp" gives WEBP with a quality and
\* method 6, "jpg" and "jpeg" give JPEG with a quality, anything else gives
\* the upper-cased extension with no parameter.  Every request asks the API
\* for output_format "png" and n = 1.
C9_FormatFromExtension ==
    /\ \A i \in 1..Len(requests) :
          /\ requests[i].output_format = <<"p", "n", "g">>
          /\ requests[i].n = 1
    /\ save_call # <<>> =>
          LET c   == save_call[1]
              ext == Lower(DropFirst(Suffix(PurePath(output_path))))
              t   == IF ext = <<>> THEN <<"p", "n", "g">> ELSE ext
          IN
          /\ c.path = output_path
          /\ t = <<"w", "e", "b", "p">> =>
                /\ c.format = <<"W", "E", "B", "P">>
                /\ \E q \in { 70, 85, 95 } :
                      c.kwargs = { <<"quality", q>>, <<"method", 6>> }
          /\ t \in { <<"j", "p", "g">>, <<"j", "p", "e", "g">> } =>
                /\ c.format = <<"J", "P", "E", "G">>
                /\ \E q \in { 70, 85, 95 } : c.kwargs = { <<"quality", q>> }
          /\ t \notin { <<"w", "e", "b", "p">>, <<"j", "p", "g">>,
                        <<"j", "p", "e", "g">> } =>
                /\ c.format = Upper(t)
                /\ c.kwargs = {}

\* An upper-case extension, written as WEBP.
C9_Witness ==
    /\ files # {}
    /\ output_path = <<"o", ".", "W", "E", "B", "P">>
    /\ save_call[1].format = <<"W", "E", "B", "P">>
    /\ <<"method", 6>> \in save_call[1].kwargs

\* C10 (as stated): the parent directory of the output exists by mkdir
\* before the POST is sent; a file is written only after a successful POST
\* with a non-empty 'data' list; status 0 only after the file was written;
\* a run that fails writes no file.
C10_EffectOrder ==
    /\ requests # <<>> => Str(Parent(PurePath(output_path))) \in dirs
    /\ files # {} =>
          /\ Len(requests) = 1
          /\ response # <<>>
          /\ response[1].kind = "json_dict"
          /\ response[1].has_data /\ response[1].data # <<>>
    /\ exit_code = <<0>> => files # {}
    /\ pc = "done" /\ exit_code # <<0>> => files = {}
====
